---- MODULE Spec2Model ----
(***************************************************************************)
(* TABMON listening lab: next-unvalidated-clip selection and validation    *)
(* record persistence.  The model covers the Pro/Expert session state      *)
(* machine, the selection and counting queries (ordered and random         *)
(* variants), the validated-set readers over the per-session CSV files in  *)
(* object storage, and the save functions step by step.                    *)
(***************************************************************************)
EXTENDS Integers, Sequences, FiniteSets, TLC

VARIABLES
    dataset,                      \* rows of the annotation parquet dataset
    bucket,                       \* object storage: key -> CSV rows, or Absent
    vcache,                       \* st.cache_data of get_validated_pro_clips, per user_id
    rcache,                       \* st.cache_data of get_remaining_pro_clips_count, per user_id
    ncache,                       \* st.cache_data of get_validated_clips, per (country, device, species)
    pro_authenticated,            \* st.session_state.pro_authenticated
    pro_user_id,                  \* st.session_state.pro_user_id
    pro_current_clip,             \* st.session_state.pro_current_clip
    pro_clip_params,              \* st.session_state.pro_clip_params
    pro_validated_clips_session,  \* st.session_state.pro_validated_clips_session
    pro_remaining_count,          \* st.session_state.pro_remaining_count
    language_code,                \* the sidebar's language selection
    submitted,                    \* <<userID, filename, start_time>> this session stored
    rng,                          \* state of Python's module-level random generator
    q,                            \* the last query call and its result
    seen,                         \* results observed per (variant, user, seed)
    pc,                           \* per session: position inside the save function
    rec,                          \* per session: the record being saved, the function
                                  \* saving it, and whether another session wrote meanwhile
    local,                        \* per session: the downloaded temp file
    ret,                          \* per session: what the last save returned
    app,                          \* Normal mode: the app the session runs
    selections,                   \* Normal mode: the sidebar's parameters
    current_clip,                 \* st.session_state.current_clip
    clip_params,                  \* st.session_state.clip_params
    clip_queue,                   \* st.session_state.clip_queue
    notice,                       \* the message the last form submission showed
    pressed                       \* the clip shown when Load Next Clip was pressed

vars == <<dataset, bucket, vcache, rcache, ncache, pro_authenticated, pro_user_id,
          pro_current_clip, pro_clip_params, pro_validated_clips_session,
          pro_remaining_count, language_code, submitted, rng, q, seen,
          pc, rec, local, ret, app, selections, current_clip, clip_params,
          clip_queue, notice, pressed>>

sessionVars == <<pro_authenticated, pro_user_id, pro_current_clip, pro_clip_params,
                 pro_validated_clips_session, pro_remaining_count, language_code,
                 submitted, notice, pressed>>

cacheVars == <<vcache, rcache, ncache>>

queryVars == <<rng, q, seen>>

saveVars == <<pc, rec, local, ret>>

normalVars == <<app, selections, current_clip, clip_params, clip_queue>>

----------------------------------------------------------------------------
(* Bounds of the model *)

\* most rows the annotation dataset holds
MaxRows == 2

\* most records one CSV file holds (caps the number of submissions)
MaxRecs == 2

\* most records one browser session stores through its page
MaxSessionRecs == 1

\* most keys one list_objects_v2 call returns (1000 in S3, scaled down)
MaxKeys == 2

----------------------------------------------------------------------------
(* Input domains *)

\* user IDs as typed into the login field: a canonical number, a number with
\* a leading zero, and a non-numeric ID
UserIds == {"7", "07", "ann"}

Filenames == {"a.wav", "b.wav"}

StartTimes == {0, 3}

\* the (fullPath, start time) pairs that identify a clip
ClipKeys == {<<"a.wav", 0>>, <<"a.wav", 3>>, <<"b.wav", 0>>}

SessionIds == {"s1", "s2"}

Languages == {"Scientific_Name", "en_uk"}

Seeds == {0, 1}

\* rows of the parquet dataset: fullPath, "start time", userID (as VARCHAR)
RowUniverse == [fullPath : Filenames, start_time : StartTimes, userID : UserIds]

Datasets == {d \in SUBSET {r \in RowUniverse : <<r.fullPath, r.start_time>> \in ClipKeys} :
                Cardinality(d) <= MaxRows}

\* the order of ORDER BY fullPath on the file names of the model
FileRank == ("a.wav" :> 1) @@ ("b.wav" :> 2)

\* Python's None, where a record (a clip, a validation record) is expected
None == [tag |-> "None"]

\* Python's None as the value of pro_user_id, of pro_remaining_count and of
\* pro_clip_params
NoneUser == "None"

NoneCount == -1

NoneParams == <<>>

\* an object of the bucket: a missing key, or a CSV file with its rows
\* Normal mode: (country, device_id, species) of the sidebar
Scopes == {<<"Norway", "dev1", "owl">>, <<"Norway", "dev1", "tit">>}

\* Normal mode: minimum confidence thresholds of the slider, in tenths
Thresholds == {0, 5}

\* (country, device, species, confidence_threshold)
NormalParams ==
    {<<sc[1], sc[2], sc[3], t>> : sc \in Scopes, t \in Thresholds} \
        {<<"Norway", "dev1", "tit", 5>>}

\* the apps with a Normal mode page: normal/ (per-session files) and
\* dashboard.py (one shared file)
Apps == {"normal", "dashboard"}

\* rows of the detection dataset of Normal mode
Detections ==
    {[filename |-> "a.wav", start_time |-> 0, confidence |-> 9,
      scope |-> <<"Norway", "dev1", "owl">>],
     [filename |-> "a.wav", start_time |-> 3, confidence |-> 3,
      scope |-> <<"Norway", "dev1", "owl">>],
     [filename |-> "b.wav", start_time |-> 0, confidence |-> 9,
      scope |-> <<"Norway", "dev1", "tit">>]}

\* the clips the session of another browser validates
OtherDetections == {d \in Detections : d.start_time = 3}

\* no st.error / st.success on the page
NoNotice == [msg |-> "", ret |-> "none"]

Absent == [exists |-> FALSE, rows |-> <<>>]

File(rows) == [exists |-> TRUE, rows |-> rows]

----------------------------------------------------------------------------
(* CSV files: to_csv writes text, read_csv infers a type per column *)

\* text cells that read_csv parses as an integer, with str(int(text))
IntLiteral == ("7" :> "7") @@ ("07" :> "7")

IsNumeric(text) == text \in DOMAIN IntLiteral

StrCell(text) == [t |-> "str", v |-> text]

IntCell(text) == [t |-> "int", v |-> IntLiteral[text]]

\* pd.read_csv: the userID column is int64 when every cell of the file
\* parses as an integer, and object (str) otherwise; filename is a str
\* column and start_time a numeric column whose values round-trip
ReadCsv(file) ==
    LET allnum == \A i \in DOMAIN file : IsNumeric(file[i].userID)
    IN [i \in DOMAIN file |->
          [filename |-> file[i].filename,
           start_time |-> file[i].start_time,
           userID |-> IF allnum THEN IntCell(file[i].userID)
                                ELSE StrCell(file[i].userID)]]

\* pd.DataFrame([validation_data]): the values are the Python objects
NewFrame(r) ==
    << [filename |-> r.filename, start_time |-> r.start_time,
        userID |-> StrCell(r.userID)] >>

\* DataFrame.to_csv: every cell is written as str(value)
ToCsv(df) ==
    [i \in DOMAIN df |->
       [filename |-> df[i].filename, start_time |-> df[i].start_time,
        userID |-> df[i].userID.v]]

\* Series.astype(str)
AsTypeStr(cell) == cell.v

\* elementwise Series == str: an int64 value never equals a str
CellEqStr(cell, text) == cell.t = "str" /\ cell.v = text

----------------------------------------------------------------------------
(* Object storage *)

PRO_VALIDATIONS_PREFIX == "validations_pro"

NORMAL_VALIDATIONS_PREFIX == "validations"

SHARED_KEY == "validation_responses.csv"

DATASET_KEY == "test_pro_annotations.parquet"

\* a key that does not depend on the session
SessionKey_without_session(prefix, session_id) == <<prefix, "s1">>

\* key = f"{PREFIX}/session_{session_id}.csv"
SessionKey(prefix, session_id) == <<prefix, session_id>>

ProKeys == {SessionKey(PRO_VALIDATIONS_PREFIX, s) : s \in SessionIds}

NormalKeys == {SessionKey(NORMAL_VALIDATIONS_PREFIX, s) : s \in SessionIds}

\* the file of a third session under the Normal mode prefix
ThirdSessionKey == <<NORMAL_VALIDATIONS_PREFIX, "s0">>

\* every key under the Normal mode prefix
NormalPrefixKeys == NormalKeys \cup {ThirdSessionKey}

BucketKeys ==
    ProKeys \cup NormalPrefixKeys \cup {<<SHARED_KEY, "">>, <<DATASET_KEY, "">>}

\* the order of the keys of one prefix in a listing (UTF-8 binary order of
\* the keys; a session_id is 8 characters of a uuid4, so the order is not
\* the order in which the sessions started)
KeyRank == ("" :> 0) @@ ("s0" :> 1) @@ ("s2" :> 2) @@ ("s1" :> 3)

\* response["Contents"] of one list_objects_v2 call for the prefix holding
\* keys: the first MaxKeys existing keys in key order
list_objects_v2(keys) ==
    LET existing == {k \in keys : bucket[k].exists}
    IN {k \in existing :
           Cardinality({j \in existing : KeyRank[j[2]] < KeyRank[k[2]]}) < MaxKeys}

\* list_objects_v2(Prefix=PRO_VALIDATIONS_PREFIX): the keys that exist
ListProKeys == list_objects_v2(ProKeys)

----------------------------------------------------------------------------
(* Validated-set readers *)

\* the rows of the DataFrames of the files in keys, as concatenated by
\* pd.concat (every cell keeps the type its own file gave it)
ConcatRows(keys) ==
    UNION {{ReadCsv(bucket[k].rows)[i] : i \in DOMAIN bucket[k].rows} : k \in keys}

\* queries.py, body of the cached function: list_ok is whether
\* list_objects_v2 succeeds, bad the keys whose download or parse raises
get_validated_pro_clips(user_id, list_ok, bad) ==
    IF ~list_ok THEN {}
    ELSE IF ListProKeys = {} THEN {}
    ELSE LET all_validations == ListProKeys \ bad
             filtered == {r \in ConcatRows(all_validations) :
                             AsTypeStr(r.userID) = user_id}
         IN IF all_validations = {} THEN {}
            ELSE {<<r.filename, r.start_time>> : r \in filtered}

\* shared/utils.py: one failing file fails the whole load (returns None)
load_pro_validation_responses(list_ok, bad) ==
    IF ~list_ok THEN [is_none |-> TRUE, rows |-> {}]
    ELSE IF ListProKeys = {} THEN [is_none |-> TRUE, rows |-> {}]
    ELSE IF ListProKeys \cap bad # {} THEN [is_none |-> TRUE, rows |-> {}]
    ELSE [is_none |-> FALSE, rows |-> ConcatRows(ListProKeys)]

\* pro/queries.py: the userID column is compared with user_id as it is
pro_get_validated_pro_clips(user_id, list_ok, bad) ==
    LET validated_df == load_pro_validation_responses(list_ok, bad)
    IN IF ~validated_df.is_none /\ validated_df.rows # {}
       THEN {<<r.filename, r.start_time>> :
                r \in {x \in validated_df.rows : CellEqStr(x.userID, user_id)}}
       ELSE {}

\* queries.py: cached set united with the session's own set
_get_validated_clips_with_session(validated_clips) ==
    validated_clips \cup pro_validated_clips_session

----------------------------------------------------------------------------
(* Selection and counting queries *)

\* CAST(userID AS VARCHAR) = CAST(? AS VARCHAR), on VARCHAR values
UserMatches(r, user_id) == r.userID = user_id

RowKey(r) == <<r.fullPath, r.start_time>>

\* ORDER BY fullPath, "start time"
RowLess(r1, r2) ==
    \/ FileRank[r1.fullPath] < FileRank[r2.fullPath]
    \/ /\ r1.fullPath = r2.fullPath
       /\ r1.start_time < r2.start_time

\* ... ORDER BY fullPath DESC, "start time" DESC LIMIT 1
FirstRow_descending(rows) == CHOOSE r \in rows : \A o \in rows : o = r \/ RowLess(o, r)

\* ... ORDER BY fullPath, "start time" LIMIT 1
FirstRow(rows) == CHOOSE r \in rows : \A o \in rows : o = r \/ RowLess(r, o)

RECURSIVE OrderBy(_)
OrderBy(rows) ==
    IF rows = {} THEN <<>>
    ELSE LET r == FirstRow(rows) IN <<r>> \o OrderBy(rows \ {r})

ClipResult(r) ==
    [filename |-> r.fullPath, start_time |-> r.start_time, userID |-> r.userID,
     all_validated |-> FALSE]

AllValidated(total) == [all_validated |-> TRUE, total_clips |-> total]

\* the rows the query with the NOT IN exclusion clause selects
Unvalidated(user_id, validated_clips) ==
    {r \in dataset : UserMatches(r, user_id) /\ RowKey(r) \notin validated_clips}

\* get_random_assigned_clip without the COUNT(*) query of the else branch
get_random_assigned_clip_without_count(user_id, validated_clips, db_ok) ==
    IF ~db_ok THEN None
    ELSE LET result == Unvalidated(user_id, validated_clips)
         IN IF result # {} THEN ClipResult(FirstRow(result))
            ELSE None

\* queries.py (and database/queries.py): next unvalidated clip in
\* (fullPath, start time) order; db_ok is whether conn.execute succeeds
get_random_assigned_clip(user_id, validated_clips, db_ok) ==
    IF ~db_ok THEN None
    ELSE LET result == Unvalidated(user_id, validated_clips)
             total == Cardinality({r \in dataset : UserMatches(r, user_id)})
         IN IF result # {} THEN ClipResult(FirstRow(result))
            ELSE IF total > 0 THEN AllValidated(total)
            ELSE None

\* queries.py: body of the cached count
get_remaining_pro_clips_count(user_id, validated_clips, db_ok) ==
    IF ~db_ok THEN 0
    ELSE Cardinality(Unvalidated(user_id, validated_clips))

\* pro/queries.py
get_assigned_clips_for_user(user_id) ==
    OrderBy({r \in dataset : UserMatches(r, user_id)})

\* number of states of the abstract random generator
RngStates == 4

\* a generator that is not reseeded: the state the last draw left
random_seed_ignored(s) == rng

\* random.seed(s)
random_seed(s) == s % RngStates

\* the generator's state after one draw
random_next(state) == (state + 1) % RngStates

\* random.choice(seq) = seq[_randbelow(len(seq))]
random_choice(seq, state) == seq[(state % Len(seq)) + 1]

SelectSeq2(seq, validated_clips) ==
    LET Keep(r) == RowKey(r) \notin validated_clips IN SelectSeq(seq, Keep)

\* pro/queries.py: a random unvalidated clip
pro_get_random_assigned_clip(user_id, validated_clips, state) ==
    LET all_clips == get_assigned_clips_for_user(user_id)
        unvalidated == SelectSeq2(all_clips, validated_clips)
    IN IF all_clips = <<>> THEN None
       ELSE IF unvalidated = <<>> THEN AllValidated(Len(all_clips))
       ELSE ClipResult(random_choice(unvalidated, state))

\* pro/queries.py
pro_get_remaining_pro_clips_count(user_id, validated_clips) ==
    Len(SelectSeq2(get_assigned_clips_for_user(user_id), validated_clips))

----------------------------------------------------------------------------
(* Saving a validation record (shared/utils.py) *)

\* pd.concat([existing_df, validation_df]).to_csv(...)
AppendCsv(rows, r) == ToCsv(ReadCsv(rows) \o NewFrame(r))

\* save_pro_validation_response / save_validation_response run to the end:
\* head_ok, dl_ok, up_ok are whether head_object, download_file + read_csv
\* and the upload of the combined file succeed, new_ok whether the upload
\* of the one-record file in the except branch succeeds
SaveOutcome(file, r, head_ok, dl_ok, up_ok, new_ok) ==
    IF file.exists /\ head_ok /\ dl_ok /\ up_ok
    THEN [file |-> File(AppendCsv(file.rows, r)), ret |-> TRUE]
    ELSE IF new_ok
    THEN [file |-> File(ToCsv(NewFrame(r))), ret |-> TRUE]
    ELSE [file |-> file, ret |-> FALSE]

\* the outcomes of the S3 calls of one save: a call after the first failing one
\* of the append path is not made, and the upload of the new file is made only
\* after such a failure
SaveFailures ==
    {f \in [head_ok : BOOLEAN, dl_ok : BOOLEAN, up_ok : BOOLEAN, new_ok : BOOLEAN] :
        /\ ~f.head_ok => f.dl_ok /\ f.up_ok
        /\ ~f.dl_ok => f.up_ok
        /\ (f.head_ok /\ f.dl_ok /\ f.up_ok) => f.new_ok}

FileLen(file) == Len(file.rows)

ValidationData(user_id, key) ==
    [filename |-> key[1], start_time |-> key[2], userID |-> user_id]

----------------------------------------------------------------------------
(* Initial values shared by the specifications *)

\* no validation file yet; the dataset object exists (its rows are dataset)
EmptyBucket ==
    [k \in BucketKeys |-> IF k = <<DATASET_KEY, "">> THEN File(<<>>) ELSE Absent]

InitStorage ==
    /\ dataset \in Datasets
    /\ bucket = EmptyBucket

\* st.cache_data of get_validated_clips with no entry
NCacheEmpty == [sc \in Scopes |-> [hit |-> FALSE, val |-> {}]]

InitCaches ==
    /\ vcache = [u \in UserIds |-> [hit |-> FALSE, val |-> {}]]
    /\ rcache = [u \in UserIds |-> [hit |-> FALSE, val |-> 0]]
    /\ ncache = NCacheEmpty

\* initialize_pro_session (session_manager.py)
initialize_pro_session ==
    /\ pro_current_clip = None
    /\ pro_clip_params = NoneParams
    /\ pro_authenticated = FALSE
    /\ pro_user_id = NoneUser
    /\ pro_validated_clips_session = {}
    /\ pro_remaining_count = NoneCount
    /\ language_code = "Scientific_Name"
    /\ submitted = {}
    /\ notice = NoNotice
    /\ pressed = None

\* a Normal mode session that has not run yet
InitNormal ==
    /\ app = "normal"
    /\ selections = NoneParams
    /\ current_clip = None
    /\ clip_params = NoneParams
    /\ clip_queue = <<>>

InitQuery ==
    /\ rng = 0
    /\ q = [op |-> "idle"]
    /\ seen = [cfg |-> None, results |-> {}, repeated |-> FALSE]

InitSave ==
    /\ pc = [s \in SessionIds |-> "idle"]
    /\ rec = [s \in SessionIds |-> [variant |-> "none", data |-> None, raced |-> FALSE]]
    /\ local = [s \in SessionIds |-> Absent]
    /\ ret = [s \in SessionIds |-> "none"]

----------------------------------------------------------------------------
(* SpecQuery: the queries applied to drawn datasets and stored validations *)

\* a session stores a validation of a clip assigned to its user
QStore(u, k) ==
    /\ q.op = "idle"
    /\ \E r \in dataset : UserMatches(r, u) /\ RowKey(r) = k
    /\ LET key == SessionKey(PRO_VALIDATIONS_PREFIX, "s1")
       IN /\ FileLen(bucket[key]) < MaxRecs
          /\ bucket' = [bucket EXCEPT ![key] =
                SaveOutcome(@, ValidationData(u, k), TRUE, TRUE, TRUE, TRUE).file]
    /\ UNCHANGED <<dataset, normalVars, cacheVars, sessionVars, queryVars, saveVars>>

ReadsOk(list_ok, bad) == list_ok /\ bad \cap ListProKeys = {}

\* get_remaining_pro_clips_count on an empty cache, both variants
QRemaining(u, list_ok, bad, db_ok) ==
    /\ q.op = "idle"
    /\ q' = [op |-> "remaining", user |-> u,
             ok |-> ReadsOk(list_ok, bad) /\ db_ok,
             ordered |-> get_remaining_pro_clips_count(u,
                            _get_validated_clips_with_session(
                                get_validated_pro_clips(u, list_ok, bad)), db_ok),
             random |-> pro_get_remaining_pro_clips_count(u,
                            pro_get_validated_pro_clips(u, list_ok, bad))]
    /\ UNCHANGED <<dataset, normalVars, bucket, cacheVars, sessionVars, rng, seen, saveVars>>

\* get_random_assigned_clip of queries.py on the stored validations; no
\* random number is drawn
QSelectOrdered(u, db_ok) ==
    /\ q.op \in {"idle", "select"}
    /\ seen.cfg \in {None, [variant |-> "ordered", user |-> u, seed |-> 0]}
    /\ LET validated_clips == _get_validated_clips_with_session(
                                  get_validated_pro_clips(u, TRUE, {}))
           result == get_random_assigned_clip(u, validated_clips, db_ok)
           ok == db_ok
       IN /\ q' = [op |-> "select", variant |-> "ordered", user |-> u, ok |-> ok,
                   validated_clips |-> validated_clips, result |-> result]
          /\ seen' = IF ok THEN [cfg |-> [variant |-> "ordered", user |-> u, seed |-> 0],
                                 results |-> seen.results \cup {result},
                                 repeated |-> seen.results # {}]
                     ELSE seen
    /\ UNCHANGED <<dataset, normalVars, bucket, cacheVars, sessionVars, rng, saveVars>>

\* random.seed(s) followed by get_random_assigned_clip of pro/queries.py
QSelectRandom(u, s) ==
    /\ q.op \in {"idle", "select"}
    /\ seen.cfg \in {None, [variant |-> "random", user |-> u, seed |-> s]}
    /\ LET validated_clips == pro_get_validated_pro_clips(u, TRUE, {})
           state == random_seed(s)
           result == pro_get_random_assigned_clip(u, validated_clips, state)
       IN /\ q' = [op |-> "select", variant |-> "random", user |-> u, ok |-> TRUE,
                   validated_clips |-> validated_clips, result |-> result]
          /\ rng' = IF result # None /\ ~result.all_validated
                    THEN random_next(state) ELSE state
          /\ seen' = [cfg |-> [variant |-> "random", user |-> u, seed |-> s],
                      results |-> seen.results \cup {result},
                      repeated |-> seen.results # {}]
    /\ UNCHANGED <<dataset, normalVars, bucket, cacheVars, sessionVars, saveVars>>

InitQ == InitNormal /\ InitStorage /\ InitCaches
    /\ initialize_pro_session
    /\ InitQuery
    /\ InitSave

\* the ways the reads of one call can fail: the listing, or some files
ReadFailures == {f \in [list_ok : BOOLEAN, bad : SUBSET ProKeys] :
                    /\ f.bad \subseteq ListProKeys
                    /\ f.list_ok \/ f.bad = {}}

NextQ ==
    \/ \E u \in UserIds, k \in ClipKeys : QStore(u, k)
    \/ \E u \in UserIds, f \in ReadFailures, db_ok \in BOOLEAN :
          QRemaining(u, f.list_ok, f.bad, db_ok)
    \/ \E u \in UserIds, db_ok \in BOOLEAN : QSelectOrdered(u, db_ok)
    \/ \E u \in UserIds, s \in Seeds : QSelectRandom(u, s)

SpecQuery == InitQ /\ [][NextQ]_vars

----------------------------------------------------------------------------
(* Properties of the queries, checked under SpecQuery *)

Assigned(u) == {r \in dataset : r.userID = u}

\* the (filename, start_time) pairs of the records stored for user u
StoredValidated(u) ==
    UNION {{<<bucket[k].rows[i].filename, bucket[k].rows[i].start_time>> :
               i \in {j \in DOMAIN bucket[k].rows : bucket[k].rows[j].userID = u}} :
           k \in ProKeys}

\* |C| - |C intersect V| for the user's assigned clips C and validated pairs V
RemainingOf(u, V) ==
    Cardinality(Assigned(u))
      - Cardinality({r \in Assigned(u) : <<r.fullPath, r.start_time>> \in V})

IsClip(result) == result # None /\ ~result.all_validated

\* C2: get_remaining_pro_clips_count(user), computed on an empty cache with
\* every read succeeding, returns |C| - |C intersect V|, where C are the
\* clips assigned to the user and V the pairs of the records stored for the
\* user united with the session's validated_clips_session; in both variants.
C2_RemainingIsSetDifference ==
    (q.op = "remaining" /\ q.ok) =>
        LET V == StoredValidated(q.user) \cup pro_validated_clips_session
        IN /\ q.ordered = RemainingOf(q.user, V)
           /\ q.random = RemainingOf(q.user, V)

----------------------------------------------------------------------------
(* Spec: one browser session in Pro/Expert mode *)

\* the session_id of the modelled browser session
OwnSession == "s1"

\* what the user can type into the login field
\* the user ids that log in to the modelled session
SessionUsers == {"7", "ann"}

LoginTexts == SessionUsers \cup {"", " ", " 7 "}

\* str.strip() on the login texts
strip(text) ==
    IF text = " 7 " THEN "7" ELSE IF text = " " THEN "" ELSE text

\* check_user_has_annotations taking a failing query for annotations
check_user_has_annotations_unless_failing(user_id, db_ok) ==
    IF ~db_ok THEN TRUE
    ELSE Cardinality({r \in dataset : UserMatches(r, user_id)}) > 0

\* queries.py: a failing query counts as no annotations
check_user_has_annotations(user_id, db_ok) ==
    IF ~db_ok THEN FALSE
    ELSE Cardinality({r \in dataset : UserMatches(r, user_id)}) > 0

\* render_pro_authentication, the Login button pressed
Login(text, db_ok) ==
    /\ ~pro_authenticated
    /\ IF text = "" \/ strip(text) = ""
       THEN UNCHANGED <<pro_authenticated, pro_user_id>>
       ELSE IF check_user_has_annotations(strip(text), db_ok)
       THEN /\ pro_authenticated' = TRUE
            /\ pro_user_id' = strip(text)
       ELSE UNCHANGED <<pro_authenticated, pro_user_id>>
    /\ notice' = NoNotice
    /\ pressed' = None
    /\ UNCHANGED <<dataset, normalVars, bucket, cacheVars, pro_current_clip, pro_clip_params,
                   pro_validated_clips_session, pro_remaining_count, language_code,
                   submitted, queryVars, saveVars>>

\* render_pro_authentication, the Logout button pressed
Logout ==
    /\ pro_authenticated
    /\ pro_authenticated' = FALSE
    /\ pro_user_id' = NoneUser
    /\ notice' = NoNotice
    /\ pressed' = None
    /\ UNCHANGED <<dataset, normalVars, bucket, cacheVars, pro_current_clip, pro_clip_params,
                   pro_validated_clips_session, pro_remaining_count, language_code,
                   submitted, queryVars, saveVars>>

\* get_pro_user_selections: the language selectbox changed
SelectLanguage(l) ==
    /\ pro_authenticated
    /\ l # language_code
    /\ language_code' = l
    /\ notice' = NoNotice
    /\ pressed' = None
    /\ UNCHANGED <<dataset, normalVars, bucket, cacheVars, pro_authenticated, pro_user_id,
                   pro_current_clip, pro_clip_params, pro_validated_clips_session,
                   pro_remaining_count, submitted, queryVars, saveVars>>

\* get_pro_user_selections: None unless render_pro_authentication reports
\* an authenticated session
get_pro_user_selections ==
    IF ~pro_authenticated THEN None
    ELSE [user_id |-> pro_user_id, confidence_threshold |-> 0,
          language_code |-> language_code]

NoHit == [hit |-> FALSE, val |-> {}]

NoCountHit == [hit |-> FALSE, val |-> 0]

\* get_or_load_pro_clip keeping the stored clip when the parameters changed
get_or_load_pro_clip_keeps_clip(list_ok, bad, db_ok) ==
    LET user_id == pro_user_id
        current_params == <<user_id, language_code>>
        changed == pro_clip_params # current_params
        \* clear_pro_clip_state
        clip1 == pro_current_clip
        session1 == IF changed THEN {} ELSE pro_validated_clips_session
        count1 == IF changed THEN NoneCount ELSE pro_remaining_count
        vcache1 == IF changed THEN [u \in UserIds |-> NoHit] ELSE vcache
        rcache1 == IF changed THEN [u \in UserIds |-> NoCountHit] ELSE rcache
        load == clip1 = None
        count_call == load /\ count1 = NoneCount
        count_body == count_call /\ ~rcache1[user_id].hit
        \* get_validated_pro_clips through st.cache_data
        read == ~vcache1[user_id].hit /\ (count_body \/ load)
        validated == IF vcache1[user_id].hit THEN vcache1[user_id].val
                     ELSE get_validated_pro_clips(user_id, list_ok, bad)
        vcache2 == IF read THEN [vcache1 EXCEPT ![user_id] =
                                    [hit |-> TRUE, val |-> validated]]
                   ELSE vcache1
        with_session == validated \cup session1
        count2 == IF ~count_call THEN count1
                  ELSE IF rcache1[user_id].hit THEN rcache1[user_id].val
                  ELSE get_remaining_pro_clips_count(user_id, with_session, db_ok)
        rcache2 == IF count_body THEN [rcache1 EXCEPT ![user_id] =
                                         [hit |-> TRUE, val |-> count2]]
                   ELSE rcache1
    IN /\ pro_clip_params' = current_params
       /\ pro_validated_clips_session' = session1
       /\ pro_remaining_count' = count2
       /\ pro_current_clip' = IF load
                              THEN get_random_assigned_clip(user_id, with_session, db_ok)
                              ELSE clip1
       /\ vcache' = vcache2
       /\ rcache' = rcache2

\* get_or_load_pro_clip(selections), called by every script run of an
\* authenticated session; list_ok, bad, db_ok are the outcomes of the S3 and
\* DuckDB calls this run makes
get_or_load_pro_clip(list_ok, bad, db_ok) ==
    LET user_id == pro_user_id
        current_params == <<user_id, language_code>>
        changed == pro_clip_params # current_params
        \* clear_pro_clip_state
        clip1 == IF changed THEN None ELSE pro_current_clip
        session1 == IF changed THEN {} ELSE pro_validated_clips_session
        count1 == IF changed THEN NoneCount ELSE pro_remaining_count
        vcache1 == IF changed THEN [u \in UserIds |-> NoHit] ELSE vcache
        rcache1 == IF changed THEN [u \in UserIds |-> NoCountHit] ELSE rcache
        load == clip1 = None
        count_call == load /\ count1 = NoneCount
        count_body == count_call /\ ~rcache1[user_id].hit
        \* get_validated_pro_clips through st.cache_data
        read == ~vcache1[user_id].hit /\ (count_body \/ load)
        validated == IF vcache1[user_id].hit THEN vcache1[user_id].val
                     ELSE get_validated_pro_clips(user_id, list_ok, bad)
        vcache2 == IF read THEN [vcache1 EXCEPT ![user_id] =
                                    [hit |-> TRUE, val |-> validated]]
                   ELSE vcache1
        with_session == validated \cup session1
        count2 == IF ~count_call THEN count1
                  ELSE IF rcache1[user_id].hit THEN rcache1[user_id].val
                  ELSE get_remaining_pro_clips_count(user_id, with_session, db_ok)
        rcache2 == IF count_body THEN [rcache1 EXCEPT ![user_id] =
                                         [hit |-> TRUE, val |-> count2]]
                   ELSE rcache1
    IN /\ pro_clip_params' = current_params
       /\ pro_validated_clips_session' = session1
       /\ pro_remaining_count' = count2
       /\ pro_current_clip' = IF load
                              THEN get_random_assigned_clip(user_id, with_session, db_ok)
                              ELSE clip1
       /\ vcache' = vcache2
       /\ rcache' = rcache2

\* one script run of the authenticated page
Run(list_ok, bad, db_ok) ==
    /\ get_pro_user_selections # None
    /\ get_or_load_pro_clip(list_ok, bad, db_ok)
    /\ notice' = NoNotice
    /\ pressed' = None
    /\ UNCHANGED <<dataset, normalVars, bucket, ncache, pro_authenticated, pro_user_id,
                   language_code, submitted, queryVars, saveVars>>

\* the page shows a clip of the logged-in user with its validation form
ClipDisplayed ==
    /\ pro_authenticated
    /\ pro_clip_params = <<pro_user_id, language_code>>
    /\ pro_current_clip # None
    /\ ~pro_current_clip.all_validated

\* _handle_pro_validation_submission saving whatever the form holds
_handle_pro_validation_submission_unchecked(user_confidence, head_ok, dl_ok, up_ok, new_ok) ==
    /\ ClipDisplayed
    /\ IF FALSE
       THEN /\ notice' = [msg |-> "error", ret |-> "none"]
            /\ UNCHANGED <<bucket, pro_current_clip, submitted>>
       ELSE LET key == SessionKey(PRO_VALIDATIONS_PREFIX, OwnSession)
                validation_data ==
                    [filename |-> pro_current_clip.filename,
                     start_time |-> pro_current_clip.start_time,
                     userID |-> pro_user_id]
                saved == SaveOutcome(bucket[key], validation_data,
                                     head_ok, dl_ok, up_ok, new_ok)
            IN /\ FileLen(bucket[key]) < MaxSessionRecs
               /\ bucket' = [bucket EXCEPT ![key] = saved.file]
               /\ pro_current_clip' = None
               /\ submitted' = IF saved.ret
                               THEN submitted \cup {<<pro_user_id,
                                        pro_current_clip.filename,
                                        pro_current_clip.start_time>>}
                               ELSE submitted
               /\ notice' = [msg |-> "success",
                              ret |-> IF saved.ret THEN "True" ELSE "False"]
    /\ pressed' = None
    /\ UNCHANGED <<dataset, normalVars, cacheVars, pro_authenticated, pro_user_id, pro_clip_params,
                   pro_validated_clips_session, pro_remaining_count, language_code,
                   queryVars, saveVars>>

\* _handle_pro_validation_submission (validation_handlers.py), with
\* save_pro_validation_response run to its end
_handle_pro_validation_submission(user_confidence, head_ok, dl_ok, up_ok, new_ok) ==
    /\ ClipDisplayed
    /\ IF ~user_confidence
       THEN /\ notice' = [msg |-> "error", ret |-> "none"]
            /\ UNCHANGED <<bucket, pro_current_clip, submitted>>
       ELSE LET key == SessionKey(PRO_VALIDATIONS_PREFIX, OwnSession)
                validation_data ==
                    [filename |-> pro_current_clip.filename,
                     start_time |-> pro_current_clip.start_time,
                     userID |-> pro_user_id]
                saved == SaveOutcome(bucket[key], validation_data,
                                     head_ok, dl_ok, up_ok, new_ok)
            IN /\ FileLen(bucket[key]) < MaxSessionRecs
               /\ bucket' = [bucket EXCEPT ![key] = saved.file]
               /\ pro_current_clip' = None
               /\ submitted' = IF saved.ret
                               THEN submitted \cup {<<pro_user_id,
                                        pro_current_clip.filename,
                                        pro_current_clip.start_time>>}
                               ELSE submitted
               /\ notice' = [msg |-> "success",
                              ret |-> IF saved.ret THEN "True" ELSE "False"]
    /\ pressed' = None
    /\ UNCHANGED <<dataset, normalVars, cacheVars, pro_authenticated, pro_user_id, pro_clip_params,
                   pro_validated_clips_session, pro_remaining_count, language_code,
                   queryVars, saveVars>>

\* render_pro_load_new_button (ui/ui_components.py), the button pressed
render_pro_load_new_button ==
    /\ ClipDisplayed
    /\ pro_current_clip' = None
    /\ pro_clip_params' = NoneParams
    /\ vcache' = [u \in UserIds |-> NoHit]
    /\ rcache' = [u \in UserIds |-> NoCountHit]
    /\ notice' = NoNotice
    /\ pressed' = pro_current_clip
    /\ UNCHANGED <<dataset, normalVars, bucket, ncache, pro_authenticated, pro_user_id,
                   pro_validated_clips_session, pro_remaining_count, language_code,
                   submitted, queryVars, saveVars>>

\* the 300 s TTL of get_validated_pro_clips runs out for the entry of the
\* logged-in user (an expired entry of another user_id is not observable before
\* that user logs in)
TtlExpires(u) ==
    /\ pro_authenticated /\ u = pro_user_id
    /\ vcache[u].hit
    /\ vcache' = [vcache EXCEPT ![u] = NoHit]
    /\ UNCHANGED <<dataset, normalVars, bucket, rcache, ncache, sessionVars, queryVars, saveVars>>

Init ==
    /\ InitNormal
    /\ InitStorage
    /\ \A r \in dataset : r.userID \in SessionUsers
    /\ InitCaches
    /\ initialize_pro_session
    /\ InitQuery
    /\ InitSave

Next ==
    \/ \E text \in LoginTexts, db_ok \in BOOLEAN : Login(text, db_ok)
    \/ Logout
    \/ \E l \in Languages : SelectLanguage(l)
    \/ \E f \in ReadFailures, db_ok \in BOOLEAN : Run(f.list_ok, f.bad, db_ok)
    \/ \E user_confidence \in BOOLEAN, f \in SaveFailures :
          _handle_pro_validation_submission(user_confidence, f.head_ok, f.dl_ok,
                                            f.up_ok, f.new_ok)
    \/ render_pro_load_new_button
    \/ \E u \in UserIds : TtlExpires(u)

Spec == Init /\ [][Next]_vars

----------------------------------------------------------------------------
(* Properties of the Pro/Expert session *)

\* the number of the logged-in user's assigned clips that are not yet validated
NotYetValidated == RemainingOf(pro_user_id, StoredValidated(pro_user_id))

\* C1: a clip for which this session has stored a validation is never again
\* the session's current clip for the same user, whatever the state of the
\* cache of get_validated_pro_clips
C1_SubmittedClipNotShownAgain ==
    IsClip(pro_current_clip) =>
        <<pro_current_clip.userID, pro_current_clip.filename,
          pro_current_clip.start_time>> \notin submitted

\* C3: a stored submission made while pro_remaining_count is the number of
\* assigned clips not yet validated leaves it equal to that number
C3_RemainingCountUpdatedOnValidation ==
    [][(bucket' # bucket /\ pro_remaining_count = NotYetValidated)
          => pro_remaining_count' = NotYetValidated']_vars

----------------------------------------------------------------------------
(* SpecSave: the save functions step by step, two sessions side by side *)

\* the save function a session calls: save_validation_response of
\* shared/utils.py, save_pro_validation_response of shared/utils.py, or
\* save_validation_response of utils.py (one file for all sessions)
SaveVariants == {"normal", "pro", "flat"}

\* the records the sessions submit
SaveRecords == {ValidationData("07", <<"a.wav", 0>>),
                ValidationData("ann", <<"b.wav", 0>>)}

\* both functions of shared/utils.py writing under the normal prefix
save_key_one_prefix(variant, session_id) ==
    IF variant = "flat" THEN <<SHARED_KEY, "">>
    ELSE SessionKey(NORMAL_VALIDATIONS_PREFIX, session_id)

\* key = f"{prefix}/session_{session_id}.csv", or "validation_responses.csv"
save_key(variant, session_id) ==
    IF variant = "normal" THEN SessionKey(NORMAL_VALIDATIONS_PREFIX, session_id)
    ELSE IF variant = "pro" THEN SessionKey(PRO_VALIDATIONS_PREFIX, session_id)
    ELSE <<SHARED_KEY, "">>

\* the object a session's running save works on
KeyOf(sid) == save_key(rec[sid].variant, sid)

\* an upload that keeps the stored object unless the body extends it
upload_file_if_extends(body, stored) ==
    IF stored.exists
       /\ ~(/\ Len(body.rows) >= Len(stored.rows)
            /\ SubSeq(body.rows, 1, Len(stored.rows)) = stored.rows)
    THEN stored
    ELSE body

\* s3_client.upload_file(temp_file.name, bucket, key): the object becomes
\* the uploaded body whatever is stored (no version or ETag is sent)
upload_file(body, stored) == body

\* validation_df = pd.DataFrame([validation_data]); the save starts.  A
\* session stays in the mode it runs, so all its saves call one function.
SaveBegin(sid, variant, r) ==
    /\ pc[sid] = "idle"
    /\ rec[sid].variant \in {"none", variant}
    /\ FileLen(bucket[save_key(variant, sid)]) < MaxRecs
    /\ rec' = [rec EXCEPT ![sid] = [variant |-> variant, data |-> r, raced |-> FALSE]]
    /\ pc' = [pc EXCEPT ![sid] = "head"]
    /\ ret' = [ret EXCEPT ![sid] = "none"]
    /\ UNCHANGED <<dataset, normalVars, bucket, cacheVars, sessionVars, queryVars, local>>

\* s3_client.head_object(Bucket=bucket, Key=key): raises when the object
\* is absent or the call fails
head_object(sid, ok) ==
    /\ pc[sid] = "head"
    /\ pc' = [pc EXCEPT ![sid] =
                 IF bucket[KeyOf(sid)].exists /\ ok THEN "download" ELSE "create"]
    /\ UNCHANGED <<dataset, normalVars, bucket, cacheVars, sessionVars, queryVars,
                   rec, local, ret>>

\* s3_client.download_file and pd.read_csv of the temp file
download_file(sid, ok) ==
    /\ pc[sid] = "download"
    /\ IF ok
       THEN /\ local' = [local EXCEPT ![sid] = bucket[KeyOf(sid)]]
            /\ pc' = [pc EXCEPT ![sid] = "upload"]
       ELSE /\ pc' = [pc EXCEPT ![sid] = "create"]
            /\ UNCHANGED local
    /\ UNCHANGED <<dataset, normalVars, bucket, cacheVars, sessionVars, queryVars, rec, ret>>

\* the return of a save that stored its record: get_validated_clips.clear()
\* (not in save_pro_validation_response) and return True
SaveReturnsTrue(sid) ==
    /\ pc' = [pc EXCEPT ![sid] = "idle"]
    /\ ret' = [ret EXCEPT ![sid] = "True"]
    /\ rec' = [s \in SessionIds |->
                 IF s # sid /\ pc[s] # "idle" THEN [rec[s] EXCEPT !.raced = TRUE]
                 ELSE rec[s]]
    /\ ncache' = IF rec[sid].variant = "pro" THEN ncache ELSE NCacheEmpty

\* pd.concat([existing_df, validation_df]), to_csv and upload_file of the
\* combined file; finally: Path(temp_file.name).unlink()
upload_combined(sid, ok) ==
    /\ pc[sid] = "upload"
    /\ local' = [local EXCEPT ![sid] = Absent]
    /\ IF ok
       THEN /\ bucket' = [bucket EXCEPT ![KeyOf(sid)] =
                   upload_file(File(AppendCsv(local[sid].rows, rec[sid].data)), @)]
            /\ SaveReturnsTrue(sid)
       ELSE /\ pc' = [pc EXCEPT ![sid] = "create"]
            /\ UNCHANGED <<bucket, ret, ncache, rec>>
    /\ UNCHANGED <<dataset, normalVars, vcache, rcache, sessionVars, queryVars>>

\* the except branch: validation_df.to_csv and upload_file of a file with
\* the one new record; when this upload fails the functions of
\* shared/utils.py return False and the one of utils.py raises
upload_new(sid, ok) ==
    /\ pc[sid] = "create"
    /\ IF ok
       THEN /\ bucket' = [bucket EXCEPT ![KeyOf(sid)] =
                   upload_file(File(ToCsv(NewFrame(rec[sid].data))), @)]
            /\ SaveReturnsTrue(sid)
       ELSE /\ pc' = [pc EXCEPT ![sid] = "idle"]
            /\ ret' = [ret EXCEPT ![sid] =
                          IF rec[sid].variant = "flat" THEN "raised" ELSE "False"]
            /\ UNCHANGED <<bucket, ncache, rec>>
    /\ UNCHANGED <<dataset, normalVars, vcache, rcache, sessionVars, queryVars, local>>

\* the rows of the dataset the submitted records are about
SaveDataset ==
    {[fullPath |-> r.filename, start_time |-> r.start_time, userID |-> r.userID] :
        r \in SaveRecords}

\* st.cache_data may hold results of get_validated_clips when the saves start
InitS ==
    /\ InitNormal
    /\ dataset = SaveDataset
    /\ bucket = EmptyBucket
    /\ vcache = [u \in UserIds |-> NoHit]
    /\ rcache = [u \in UserIds |-> NoCountHit]
    /\ ncache \in {NCacheEmpty, [sc \in Scopes |-> [hit |-> TRUE, val |-> {}]]}
    /\ initialize_pro_session
    /\ InitQuery
    /\ InitSave

NextSave ==
    \/ \E sid \in SessionIds, variant \in SaveVariants, r \in SaveRecords :
          SaveBegin(sid, variant, r)
    \/ \E sid \in SessionIds, ok \in BOOLEAN : head_object(sid, ok)
    \/ \E sid \in SessionIds, ok \in BOOLEAN : download_file(sid, ok)
    \/ \E sid \in SessionIds, ok \in BOOLEAN : upload_combined(sid, ok)
    \/ \E sid \in SessionIds, ok \in BOOLEAN : upload_new(sid, ok)

SpecSave == InitS /\ [][NextSave]_vars

----------------------------------------------------------------------------
(* Properties of the save functions *)

\* record r is a row of the object stored under key k
Holds(k, r) ==
    /\ k \in DOMAIN bucket
    /\ \E i \in DOMAIN bucket[k].rows : bucket[k].rows[i] = r

\* the object named <prefix>/session_<sid>.csv for the session's mode
OwnFile(sid) ==
    <<IF rec[sid].variant = "normal" THEN "validations" ELSE "validations_pro", sid>>

\* the session's last save returned True
Saved(sid) == pc[sid] = "idle" /\ ret[sid] = "True"

IsPrefix(a, b) == Len(a) <= Len(b) /\ SubSeq(b, 1, Len(a)) = a

\* C6: whenever two sessions with different session_id have each had a
\* save_validation_response or save_pro_validation_response return True,
\* however their head_object, download_file and upload_file steps
\* interleaved, each session's record is in its own session file
C6_ConcurrentWritersNotClobbered ==
    \A s, t \in SessionIds :
        (/\ s # t
         /\ Saved(s) /\ Saved(t)
         /\ rec[s].variant \in {"normal", "pro"}
         /\ rec[t].variant \in {"normal", "pro"})
        => Holds(OwnFile(s), rec[s].data) /\ Holds(OwnFile(t), rec[t].data)

\* C6 witness: two Pro sessions have saved different records, one of them
\* while the other wrote, and both files existed before
C6_Witness ==
    /\ Saved("s1") /\ Saved("s2")
    /\ rec["s1"].variant = "pro" /\ rec["s2"].variant = "pro"
    /\ rec["s1"].raced
    /\ rec["s1"].data # rec["s2"].data
    /\ FileLen(bucket[<<"validations_pro", "s1">>]) = 2
    /\ FileLen(bucket[<<"validations_pro", "s2">>]) = 2
    /\ Holds(<<"validations_pro", "s1">>, rec["s1"].data)
    /\ Holds(<<"validations_pro", "s2">>, rec["s2"].data)

\* C7: the upload of the shared-file variant is not guarded: when it
\* succeeds, validation_responses.csv becomes the rows the session
\* downloaded followed by its record, whatever has been stored since
C7_SharedUploadUnguarded ==
    [][\A sid \in SessionIds :
          (pc[sid] = "upload" /\ pc'[sid] = "idle" /\ rec[sid].variant = "flat")
          => bucket'[<<"validation_responses.csv", "">>] =
                File(AppendCsv(local[sid].rows, rec[sid].data))]_vars

\* C7 witness: both sessions appended to the existing shared file, both
\* saves returned True, and the file holds the record of one only
C7_Witness ==
    \E s, t \in SessionIds :
        /\ s # t
        /\ Saved(s) /\ Saved(t)
        /\ rec[s].variant = "flat" /\ rec[t].variant = "flat"
        /\ rec[s].raced
        /\ FileLen(bucket[<<"validation_responses.csv", "">>]) = 2
        /\ Holds(<<"validation_responses.csv", "">>, rec[s].data)
        /\ ~Holds(<<"validation_responses.csv", "">>, rec[t].data)

\* C8: no step of a save, failing calls included, changes or removes a
\* record of a session file: the rows stored before are a prefix of the
\* rows stored after
C8_RecordsNeverMutatedOrDeleted ==
    [][\A k \in ProKeys \cup NormalKeys :
          IsPrefix(bucket[k].rows, bucket'[k].rows)]_vars

\* C9: a save of shared/utils.py that returns True leaves the session file
\* holding the rows it held before followed by the one new record
C9_SuccessfulSaveAppendsOneRecord ==
    [][\A sid \in SessionIds :
          (/\ pc[sid] # "idle" /\ pc'[sid] = "idle" /\ ret'[sid] = "True"
           /\ rec[sid].variant \in {"normal", "pro"})
          => bucket'[OwnFile(sid)].rows =
                bucket[OwnFile(sid)].rows \o <<rec[sid].data>>]_vars

\* C10: a step changes an object only if it is the upload of a running save
\* and the object is that save's own one: validations/session_<sid>.csv for
\* save_validation_response, validations_pro/session_<sid>.csv for
\* save_pro_validation_response (validation_responses.csv for the function
\* of utils.py); the dataset is never changed
C10_SaveWritesOnlyOwnObject ==
    [][/\ dataset' = dataset
       /\ \A k \in DOMAIN bucket :
             bucket'[k] # bucket[k] =>
                \E sid \in SessionIds :
                   /\ pc[sid] \in {"upload", "create"} /\ pc'[sid] = "idle"
                   /\ \/ rec[sid].variant = "normal" /\ k = <<"validations", sid>>
                      \/ rec[sid].variant = "pro" /\ k = <<"validations_pro", sid>>
                      \/ rec[sid].variant = "flat"
                            /\ k = <<"validation_responses.csv", "">>]_vars

\* C10 witness: a Pro session has appended to its file while the file of a
\* Normal session and the dataset object are in the bucket
C10_Witness ==
    /\ Saved("s1") /\ rec["s1"].variant = "pro"
    /\ FileLen(bucket[<<"validations_pro", "s1">>]) = 2
    /\ bucket[<<"validations", "s2">>].exists
    /\ bucket[<<"test_pro_annotations.parquet", "">>].exists

----------------------------------------------------------------------------
(* SpecNormal: one session in Normal mode, next to the saves and reads of *)
(* another session of the same app                                        *)

\* the validation files the app's get_validated_clips reads
NormalFiles ==
    IF app = "normal" THEN NormalPrefixKeys ELSE {<<SHARED_KEY, "">>}

\* the object the app's save_validation_response writes for a session
NormalKey(sid) ==
    IF app = "normal" THEN SessionKey(NORMAL_VALIDATIONS_PREFIX, sid)
    ELSE <<SHARED_KEY, "">>

\* validation_data of a Normal mode submission: filename and start_time of
\* the clip, country, device_id and species of the selections
NormalData(clip, params) ==
    [filename |-> clip.filename, start_time |-> clip.start_time,
     scope |-> <<params[1], params[2], params[3]>>]

\* save_validation_response run to its end on a file of Normal mode records:
\* the text columns and start_time are given back unchanged by read_csv and
\* to_csv
NormalSaveOutcome(file, r, head_ok, dl_ok, up_ok, new_ok) ==
    IF file.exists /\ head_ok /\ dl_ok /\ up_ok
    THEN [file |-> File(file.rows \o <<r>>), ret |-> TRUE]
    ELSE IF new_ok
    THEN [file |-> File(<<r>>), ret |-> TRUE]
    ELSE [file |-> file, ret |-> FALSE]

\* get_validated_clips.clear()
NormalCacheClear(cache) == NCacheEmpty

\* shared/utils.py get_validated_clips(country, device_id, species): the
\* body; list_ok is whether list_objects_v2 succeeds, bad the listed files
\* whose download or read_csv fails
get_validated_clips(keys, scope, list_ok, bad) ==
    LET listed == list_objects_v2(keys)
        read == listed \ bad
        rows == UNION {{bucket[k].rows[i] : i \in DOMAIN bucket[k].rows} : k \in read}
    IN IF ~list_ok \/ listed = {} \/ read = {} THEN {}
       ELSE {<<r.filename, r.start_time>> : r \in {x \in rows : x.scope = scope}}

\* a call of get_validated_clips through st.cache_data
CachedValidatedClips(scope, list_ok, bad) ==
    IF ncache[scope].hit
    THEN [val |-> ncache[scope].val, cache |-> ncache, ok |-> TRUE]
    ELSE LET v == get_validated_clips(NormalFiles, scope, list_ok, bad)
         IN [val |-> v,
             cache |-> [ncache EXCEPT ![scope] = [hit |-> TRUE, val |-> v]],
             ok |-> list_ok /\ bad \cap {k \in NormalFiles : bucket[k].exists} = {}]

\* the observation of the first get_validated_clips call, for the scope of
\* the record, after a save of this session that returned True
Observe(scope, call) ==
    IF q.op = "saved" /\ q.rec.scope = scope
    THEN [op |-> "first_read", ok |-> call.ok, was_cached |-> q.was_cached,
          has |-> <<q.rec.filename, q.rec.start_time>> \in call.val]
    ELSE q

\* get_random_detection_clip(country, device, species, threshold): a clip of
\* the selection at or above the threshold that is not validated, None when
\* there is none
get_random_detection_clip(params, validated, pick) ==
    LET candidates == {d \in Detections :
                          /\ d.scope = <<params[1], params[2], params[3]>>
                          /\ d.confidence >= params[4]
                          /\ <<d.filename, d.start_time>> \notin validated}
    IN IF candidates = {} THEN None
       ELSE LET d == IF pick \in candidates THEN pick
                     ELSE CHOOSE c \in candidates : TRUE
            IN [filename |-> d.filename, start_time |-> d.start_time,
                confidence |-> d.confidence, all_validated |-> FALSE,
                selected_for |-> params]

\* get_or_load_clip selecting a clip on every script run
get_or_load_clip_every_run(list_ok, bad, pick) ==
    LET current_params == selections
        changed == clip_params # current_params
        \* clear_clip_state (normal/session_manager.py only)
        clip1 == IF changed /\ app = "normal" THEN None ELSE current_clip
        queue1 == IF changed /\ app = "normal" THEN <<>> ELSE clip_queue
        load == TRUE
        scope == <<current_params[1], current_params[2], current_params[3]>>
        call == CachedValidatedClips(scope, list_ok, bad)
        clip2 == get_random_detection_clip(current_params, call.val, pick)
    IN /\ clip_params' = current_params
       /\ current_clip' = IF load THEN clip2 ELSE clip1
       /\ clip_queue' = queue1
       /\ ncache' = IF load THEN call.cache ELSE ncache
       /\ q' = IF load THEN Observe(scope, call) ELSE q

\* get_or_load_clip that stores the new parameters and keeps the clip
get_or_load_clip_keeps_clip(list_ok, bad, pick) ==
    LET current_params == selections
        changed == clip_params # current_params
        \* clear_clip_state (normal/session_manager.py only)
        clip1 == current_clip
        queue1 == IF changed /\ app = "normal" THEN <<>> ELSE clip_queue
        load == current_clip = None
        scope == <<current_params[1], current_params[2], current_params[3]>>
        call == CachedValidatedClips(scope, list_ok, bad)
        clip2 == get_random_detection_clip(current_params, call.val, pick)
    IN /\ clip_params' = current_params
       /\ current_clip' = IF load THEN clip2 ELSE clip1
       /\ clip_queue' = queue1
       /\ ncache' = IF load THEN call.cache ELSE ncache
       /\ q' = IF load THEN Observe(scope, call) ELSE q

\* get_or_load_clip(selections) of normal/session_manager.py and of
\* dashboard.py
get_or_load_clip(list_ok, bad, pick) ==
    LET current_params == selections
        changed == clip_params # current_params
        \* clear_clip_state (normal/session_manager.py only)
        clip1 == IF changed /\ app = "normal" THEN None ELSE current_clip
        queue1 == IF changed /\ app = "normal" THEN <<>> ELSE clip_queue
        load == IF app = "normal" THEN clip1 = None
                ELSE changed \/ current_clip = None
        scope == <<current_params[1], current_params[2], current_params[3]>>
        call == CachedValidatedClips(scope, list_ok, bad)
        clip2 == get_random_detection_clip(current_params, call.val, pick)
    IN /\ clip_params' = current_params
       /\ current_clip' = IF load THEN clip2 ELSE clip1
       /\ clip_queue' = queue1
       /\ ncache' = IF load THEN call.cache ELSE ncache
       /\ q' = IF load THEN Observe(scope, call) ELSE q

\* one script run of the Normal mode page
NRun(list_ok, bad, pick) ==
    /\ get_or_load_clip(list_ok, bad, pick)
    /\ notice' = NoNotice
    /\ UNCHANGED <<dataset, bucket, vcache, rcache, app, selections, rng, seen,
                   saveVars, pro_authenticated, pro_user_id, pro_current_clip,
                   pro_clip_params, pro_validated_clips_session,
                   pro_remaining_count, language_code, submitted, pressed>>

\* get_user_selections: a sidebar widget changed
NSelect(params) ==
    /\ params # selections
    /\ selections' = params
    /\ notice' = NoNotice
    /\ UNCHANGED <<dataset, bucket, cacheVars, app, current_clip, clip_params,
                   clip_queue, queryVars, saveVars, pro_authenticated, pro_user_id,
                   pro_current_clip, pro_clip_params, pro_validated_clips_session,
                   pro_remaining_count, language_code, submitted, pressed>>

\* the page shows a clip of the current selections with its form
NClipDisplayed ==
    /\ clip_params = selections
    /\ current_clip # None

\* _handle_validation_submission (normal/validation_handlers.py) and the
\* submission branch of render_validation_form (dashboard.py), with the save
\* run to its end
_handle_validation_submission(validation_response, user_confidence, head_ok, dl_ok, up_ok, new_ok) ==
    /\ NClipDisplayed
    /\ IF ~(validation_response /\ user_confidence)
       THEN /\ notice' = [msg |-> "error", ret |-> "none"]
            /\ UNCHANGED <<bucket, ncache, current_clip, clip_params, q>>
       ELSE LET key == NormalKey(OwnSession)
                validation_data == NormalData(current_clip, selections)
                saved == NormalSaveOutcome(bucket[key], validation_data,
                                           head_ok, dl_ok, up_ok, new_ok)
            IN /\ FileLen(bucket[key]) < MaxSessionRecs
               /\ bucket' = [bucket EXCEPT ![key] = saved.file]
               /\ ncache' = IF saved.ret THEN NormalCacheClear(ncache) ELSE ncache
               /\ q' = IF saved.ret
                       THEN [op |-> "saved", rec |-> validation_data,
                             was_cached |-> ncache[validation_data.scope].hit]
                       ELSE [op |-> "idle"]
               /\ IF app = "normal"
                  THEN /\ notice' = [msg |-> "success",
                                     ret |-> IF saved.ret THEN "True" ELSE "False"]
                       /\ UNCHANGED <<current_clip, clip_params>>
                  ELSE IF saved.ret
                  THEN /\ current_clip' = None
                       /\ clip_params' = NoneParams
                       /\ notice' = [msg |-> "success", ret |-> "True"]
                  ELSE \* the upload of the except branch raised
                       /\ notice' = [msg |-> "exception", ret |-> "raised"]
                       /\ UNCHANGED <<current_clip, clip_params>>
    /\ UNCHANGED <<dataset, vcache, rcache, app, selections, clip_queue, rng, seen,
                   saveVars, pro_authenticated, pro_user_id, pro_current_clip,
                   pro_clip_params, pro_validated_clips_session,
                   pro_remaining_count, language_code, submitted, pressed>>

\* render_load_new_button (normal/ui_components.py, dashboard.py)
render_load_new_button ==
    /\ NClipDisplayed
    /\ current_clip' = None
    /\ clip_params' = NoneParams
    /\ clip_queue' = <<>>
    /\ ncache' = NCacheEmpty
    /\ notice' = NoNotice
    /\ UNCHANGED <<dataset, bucket, vcache, rcache, app, selections, queryVars,
                   saveVars, pro_authenticated, pro_user_id, pro_current_clip,
                   pro_clip_params, pro_validated_clips_session,
                   pro_remaining_count, language_code, submitted, pressed>>

\* the session of another browser stores a validation with the same app
OtherSessionSaves(d, head_ok, dl_ok, up_ok, new_ok) ==
    LET key == NormalKey("s2")
        saved == NormalSaveOutcome(bucket[key], [filename |-> d.filename,
                     start_time |-> d.start_time, scope |-> d.scope],
                     head_ok, dl_ok, up_ok, new_ok)
    IN /\ FileLen(bucket[key]) < MaxSessionRecs
       /\ \A i \in DOMAIN bucket[key].rows :
             <<bucket[key].rows[i].filename, bucket[key].rows[i].start_time>>
                 # <<d.filename, d.start_time>>
       /\ bucket' = [bucket EXCEPT ![key] = saved.file]
       /\ ncache' = IF saved.ret THEN NormalCacheClear(ncache) ELSE ncache
       /\ UNCHANGED <<dataset, vcache, rcache, normalVars, sessionVars, queryVars,
                      saveVars>>

\* the session of another browser calls get_validated_clips
OtherSessionReads(scope, list_ok, bad) ==
    LET call == CachedValidatedClips(scope, list_ok, bad)
    IN /\ ~ncache[scope].hit
       /\ ncache' = call.cache
       /\ q' = Observe(scope, call)
       /\ UNCHANGED <<dataset, bucket, vcache, rcache, normalVars, sessionVars, rng,
                      seen, saveVars>>

\* the 300 s TTL of get_validated_clips runs out for one entry
NormalTtlExpires(scope) ==
    /\ ncache[scope].hit
    /\ ncache' = [ncache EXCEPT ![scope] = [hit |-> FALSE, val |-> {}]]
    /\ UNCHANGED <<dataset, bucket, vcache, rcache, normalVars, sessionVars, queryVars,
                   saveVars>>

\* the ways the reads of one get_validated_clips call can fail
NormalReadFailures ==
    {f \in [list_ok : BOOLEAN, bad : SUBSET (NormalPrefixKeys \cup {<<SHARED_KEY, "">>})] :
        /\ f.bad \subseteq {k \in NormalFiles : bucket[k].exists}
        /\ f.list_ok \/ f.bad = {}}

InitN ==
    /\ app \in Apps
    /\ selections \in NormalParams
    /\ current_clip = None
    /\ clip_params = NoneParams
    /\ clip_queue = <<>>
    /\ dataset = {}
    /\ bucket = EmptyBucket
    /\ InitCaches
    /\ initialize_pro_session
    /\ InitQuery
    /\ InitSave

NextN ==
    \/ \E f \in NormalReadFailures, pick \in Detections :
          NRun(f.list_ok, f.bad, pick)
    \/ \E params \in NormalParams : NSelect(params)
    \/ \E validation_response, user_confidence \in BOOLEAN, f \in SaveFailures :
          _handle_validation_submission(validation_response, user_confidence,
                                        f.head_ok, f.dl_ok, f.up_ok, f.new_ok)
    \/ render_load_new_button
    \/ \E d \in OtherDetections, f \in SaveFailures :
          OtherSessionSaves(d, f.head_ok, f.dl_ok, f.up_ok, f.new_ok)
    \/ \E scope \in Scopes, f \in NormalReadFailures :
          OtherSessionReads(scope, f.list_ok, f.bad)
    \/ \E scope \in Scopes : NormalTtlExpires(scope)

SpecNormal == InitN /\ [][NextN]_vars

----------------------------------------------------------------------------
(* Properties of the Normal mode session *)

\* C11: after a save_validation_response of shared/utils.py that returned
\* True, the first get_validated_clips call for the record's country,
\* device and species whose reads succeed returns a set holding the
\* record's (filename, start_time), whatever was cached before the save
C11_SavedClipInNextValidatedSet ==
    (app = "normal" /\ q.op = "first_read" /\ q.ok) => q.has

\* a Normal mode session that starts when a third session has stored a file
InitMany ==
    /\ app \in Apps
    /\ selections \in NormalParams
    /\ current_clip = None
    /\ clip_params = NoneParams
    /\ clip_queue = <<>>
    /\ dataset = {}
    /\ bucket \in {[EmptyBucket EXCEPT ![ThirdSessionKey] =
                      File(<<[filename |-> d.filename, start_time |-> d.start_time,
                              scope |-> d.scope]>>)] : d \in OtherDetections}
    /\ InitCaches
    /\ initialize_pro_session
    /\ InitQuery
    /\ InitSave

SpecManySessions == InitMany /\ [][NextN]_vars

----------------------------------------------------------------------------
(* SpecRead: the validated-set readers as functions of the stored files *)

\* records of Pro / Expert validation files
ProRows ==
    {[filename |-> f, start_time |-> 0, userID |-> u] :
        f \in Filenames, u \in SessionUsers}

\* records of Normal mode validation files
NormalRows ==
    {[filename |-> d.filename, start_time |-> d.start_time, scope |-> d.scope] :
        d \in Detections}

\* the validation files of two sessions under the Pro prefix, or of three
\* sessions under the Normal mode prefix
ReadBuckets ==
    {b \in [BucketKeys -> {Absent} \cup {File(<<r>>) : r \in ProRows \cup NormalRows}
                                   \cup {File(<<>>)}] :
        /\ b[<<DATASET_KEY, "">>] = File(<<>>)
        /\ b[<<SHARED_KEY, "">>] = Absent
        /\ \A k \in ProKeys :
              b[k].exists => Len(b[k].rows) = 1 /\ b[k].rows[1] \in ProRows
        /\ \A k \in NormalPrefixKeys :
              b[k].exists => Len(b[k].rows) = 1 /\ b[k].rows[1] \in NormalRows
        /\ (\A k \in ProKeys : ~b[k].exists)
              \/ (\A k \in NormalPrefixKeys : ~b[k].exists)}

\* the ways the reads of one get_validated_pro_clips call can fail
ProReadFailures ==
    {f \in [list_ok : BOOLEAN, bad : SUBSET ProKeys] :
        /\ f.bad \subseteq ListProKeys
        /\ f.list_ok \/ f.bad = {}}

\* a call of the body of get_validated_clips (shared/utils.py)
ReadNormal(scope, list_ok, bad) ==
    /\ q' = [op |-> "read_normal", arg |-> scope, list_ok |-> list_ok, bad |-> bad,
             result |-> get_validated_clips(NormalPrefixKeys, scope, list_ok, bad)]
    /\ UNCHANGED <<dataset, bucket, cacheVars, normalVars, sessionVars, rng, seen,
                   saveVars>>

\* a call of the body of get_validated_pro_clips (queries.py,
\* database/queries.py)
ReadPro(user_id, list_ok, bad) ==
    /\ q' = [op |-> "read_pro", arg |-> <<user_id>>, list_ok |-> list_ok, bad |-> bad,
             result |-> get_validated_pro_clips(user_id, list_ok, bad)]
    /\ UNCHANGED <<dataset, bucket, cacheVars, normalVars, sessionVars, rng, seen,
                   saveVars>>

InitR ==
    /\ InitNormal
    /\ dataset = {}
    /\ bucket \in ReadBuckets
    /\ InitCaches
    /\ initialize_pro_session
    /\ InitQuery
    /\ InitSave

NextR ==
    \/ \E scope \in Scopes, f \in NormalReadFailures :
          ReadNormal(scope, f.list_ok, f.bad)
    \/ \E u \in SessionUsers, f \in ProReadFailures :
          ReadPro(u, f.list_ok, f.bad)

SpecRead == InitR /\ [][NextR]_vars

\* the (filename, start_time) pairs of one Normal mode file for a scope
NormalPairsOf(k, scope) ==
    {<<bucket[k].rows[i].filename, bucket[k].rows[i].start_time>> :
        i \in {j \in DOMAIN bucket[k].rows : bucket[k].rows[j].scope = scope}}

\* the (filename, start_time) pairs of one Pro file for a user
ProPairsOf(k, user_id) ==
    {<<bucket[k].rows[i].filename, bucket[k].rows[i].start_time>> :
        i \in {j \in DOMAIN bucket[k].rows : bucket[k].rows[j].userID = user_id}}

\* C12: a reader call always returns a set of pairs; the set is empty when
\* the listing or the combining fails or no file exists, and when files
\* cannot be downloaded or parsed it is the pairs of all the other files
C12_ReadersFallBackToEmptySet ==
    /\ q.op = "read_normal" =>
          /\ q.result \subseteq ClipKeys
          /\ (~q.list_ok \/ \A k \in NormalPrefixKeys : ~bucket[k].exists)
                => q.result = {}
          /\ q.list_ok =>
                q.result = UNION {NormalPairsOf(k, q.arg) : k \in NormalPrefixKeys \ q.bad}
    /\ q.op = "read_pro" =>
          /\ q.result \subseteq ClipKeys
          /\ (~q.list_ok \/ ListProKeys = {}) => q.result = {}
          /\ q.list_ok =>
                q.result = UNION {ProPairsOf(k, q.arg[1]) : k \in ListProKeys \ q.bad}

----------------------------------------------------------------------------
(* SpecSession: one browser session of either page *)

\* the session runs the Pro / Expert page (it has no Normal mode selections)
ProPage == selections = NoneParams

InitSession == Init \/ InitN

NextSession ==
    \/ ProPage /\ \E text \in LoginTexts, db_ok \in BOOLEAN : Login(text, db_ok)
    \/ ProPage /\ Logout
    \/ ProPage /\ \E l \in Languages : SelectLanguage(l)
    \/ ProPage /\ \E f \in ReadFailures, db_ok \in BOOLEAN :
                      Run(f.list_ok, f.bad, db_ok)
    \/ ProPage /\ \E user_confidence \in BOOLEAN, f \in SaveFailures :
                      _handle_pro_validation_submission(user_confidence, f.head_ok,
                                                        f.dl_ok, f.up_ok, f.new_ok)
    \/ ProPage /\ render_pro_load_new_button
    \/ ProPage /\ \E u \in UserIds : TtlExpires(u)
    \/ ~ProPage /\ \E f \in NormalReadFailures, pick \in Detections :
                       NRun(f.list_ok, f.bad, pick)
    \/ ~ProPage /\ \E params \in NormalParams : NSelect(params)
    \/ ~ProPage /\ \E validation_response, user_confidence \in BOOLEAN,
                          f \in SaveFailures :
                       _handle_validation_submission(validation_response,
                           user_confidence, f.head_ok, f.dl_ok, f.up_ok, f.new_ok)
    \/ ~ProPage /\ render_load_new_button
    \/ ~ProPage /\ \E d \in OtherDetections, f \in SaveFailures :
                       OtherSessionSaves(d, f.head_ok, f.dl_ok, f.up_ok, f.new_ok)
    \/ ~ProPage /\ \E scope \in Scopes, f \in NormalReadFailures :
                       OtherSessionReads(scope, f.list_ok, f.bad)
    \/ ~ProPage /\ \E scope \in Scopes : NormalTtlExpires(scope)

SpecSession == InitSession /\ [][NextSession]_vars

\* a step of the Pro / Expert script run (Run), told from the steps of the
\* other actions by what those change: the login state, the language, the
\* page messages, object storage, or a cache entry that expires
ProRunStep ==
    /\ ProPage
    /\ get_pro_user_selections # None
    /\ notice' = NoNotice /\ pressed' = None
    /\ UNCHANGED <<pro_authenticated, pro_user_id, language_code, bucket>>
    /\ vcache[pro_user_id].hit => vcache'[pro_user_id].hit

\* C13: a script run whose selection parameters equal the stored clip_params
\* while a clip is stored keeps current_clip and clip_params and performs no
\* selection (no cached query is called, the remaining count is not computed)
C13_ClipKeptAcrossReruns ==
    [][/\ (/\ ProRunStep
           /\ pro_clip_params = <<pro_user_id, language_code>>
           /\ pro_current_clip # None)
          => UNCHANGED <<pro_current_clip, pro_clip_params, pro_remaining_count,
                         pro_validated_clips_session, cacheVars, queryVars>>
       /\ (/\ ~ProPage
           /\ clip_params = selections
           /\ current_clip # None
           /\ notice' = NoNotice
           /\ UNCHANGED <<selections, bucket>>
           /\ \E f \in NormalReadFailures, pick \in Detections :
                 NRun(f.list_ok, f.bad, pick))
          => UNCHANGED <<current_clip, clip_params, clip_queue, cacheVars, queryVars>>
      ]_vars

\* C13 witness: a clip is stored under the current parameters in a session
\* that has already stored a validation, so a rerun with a fresh selection
\* would have had another clip to pick
C13_Witness ==
    /\ ~ProPage
    /\ clip_params = selections
    /\ current_clip # None
    /\ notice.msg = "success" /\ notice.ret = "True"

----------------------------------------------------------------------------
(* Properties of the ordered selection *)

\* C14: when the ordered get_random_assigned_clip returns a clip, the clip
\* is assigned to the requested user, is not in the validated set, and no
\* other assigned clip outside the validated set comes before it in the
\* lexicographic order on (fullPath, start time)
C14_OrderedSelectionReturnsLeast ==
    (q.op = "select" /\ q.variant = "ordered" /\ q.ok /\ IsClip(q.result)) =>
        /\ q.result.userID = q.user
        /\ \E r \in Assigned(q.user) :
              <<r.fullPath, r.start_time>> = <<q.result.filename, q.result.start_time>>
        /\ <<q.result.filename, q.result.start_time>> \notin q.validated_clips
        /\ \A r \in Assigned(q.user) :
              <<r.fullPath, r.start_time>> \notin q.validated_clips =>
                 \/ FileRank[q.result.filename] < FileRank[r.fullPath]
                 \/ /\ q.result.filename = r.fullPath
                    /\ q.result.start_time <= r.start_time

\* C14 witness: the user has two unvalidated assigned clips and one is
\* returned
C14_Witness ==
    /\ q.op = "select" /\ q.variant = "ordered" /\ q.ok
    /\ IsClip(q.result)
    /\ Cardinality({r \in Assigned(q.user) :
                       <<r.fullPath, r.start_time>> \notin q.validated_clips}) >= 2

----------------------------------------------------------------------------
(* Properties of the Pro / Expert session *)

\* C15: when the user has at least two assigned clips with no stored
\* validation, the clip get_or_load_pro_clip returns on the script run after
\* "Load Next Clip" was pressed has another (filename, start_time) than the
\* clip that was displayed when the button was pressed
C15_LoadNextClipGivesAnotherClip ==
    [][(/\ pressed # None
        /\ IsClip(pro_current_clip')
        /\ Cardinality({r \in Assigned(pro_user_id) :
               <<r.fullPath, r.start_time>> \notin StoredValidated(pro_user_id)}) >= 2)
          => <<pro_current_clip'.filename, pro_current_clip'.start_time>>
                # <<pressed.filename, pressed.start_time>>]_vars

\* C16: when a script run's get_or_load_clip / get_or_load_pro_clip has
\* returned, the stored clip_params are the parameters of the call and the
\* stored clip was selected under them; a run that finds other parameters
\* stored empties the clip queue, or the session's validated set with the
\* remaining count computed anew, and selects in the same call (the
\* validated-set reader has been called for the new parameters)
C16_ClipSelectedUnderStoredParams ==
    [][/\ ProRunStep
          => /\ pro_clip_params' = <<pro_user_id, language_code>>
             /\ IsClip(pro_current_clip') => pro_current_clip'.userID = pro_user_id
             /\ pro_clip_params # <<pro_user_id, language_code>> =>
                   /\ pro_validated_clips_session' = {}
                   /\ pro_remaining_count' # NoneCount
                   /\ vcache'[pro_user_id].hit
                   /\ \A u \in UserIds \ {pro_user_id} : ~vcache'[u].hit
       /\ (/\ ~ProPage
           /\ notice' = NoNotice
           /\ UNCHANGED <<selections, bucket>>
           /\ \E f \in NormalReadFailures, pick \in Detections :
                 NRun(f.list_ok, f.bad, pick))
          => /\ clip_params' = selections
             /\ current_clip' # None => current_clip'.selected_for = selections
             /\ clip_params # selections =>
                   /\ clip_queue' = <<>>
                   /\ ncache'[<<selections[1], selections[2], selections[3]>>].hit
      ]_vars

\* C16 witness: the session stored a validation for one species and now
\* holds a clip selected under the parameters of another species
C16_Witness ==
    /\ ~ProPage /\ app = "normal"
    /\ clip_params = selections
    /\ current_clip # None
    /\ current_clip.selected_for = selections
    /\ \E i \in DOMAIN bucket[NormalKey(OwnSession)].rows :
          bucket[NormalKey(OwnSession)].rows[i].scope
             # <<selections[1], selections[2], selections[3]>>

\* C17: a session becomes authenticated only with a user ID that is not
\* empty after stripping and that has annotations in the dataset (a failing
\* query authenticates nobody); an authenticated session always has a
\* user_id; leaving the authenticated state sets user_id to None; and
\* get_pro_user_selections is None whenever the session is not authenticated
C17_AuthenticationOnlyByLogin ==
    /\ [](/\ pro_authenticated => pro_user_id # NoneUser
          /\ ~pro_authenticated => get_pro_user_selections = None)
    /\ [][/\ (~pro_authenticated /\ pro_authenticated') =>
                \E text \in LoginTexts :
                   /\ strip(text) # ""
                   /\ pro_user_id' = strip(text)
                   /\ Assigned(strip(text)) # {}
          /\ (pro_authenticated /\ ~pro_authenticated') => pro_user_id' = NoneUser
         ]_vars

\* C17 witness: a user is logged in while another user of the login field
\* has no annotations
C17_Witness ==
    /\ pro_authenticated
    /\ pro_user_id \in SessionUsers
    /\ \E u \in SessionUsers : Assigned(u) = {}

\* C18: a submission of the Normal mode form without both an answer and a
\* confidence rating, or of the Pro / Expert form without a confidence
\* rating, shows an error and changes nothing else: object storage, the
\* caches a save would clear, the current clip and clip_params stay as
\* they were
C18_IncompleteSubmissionStoresNothing ==
    [][/\ (ProPage /\ notice' # NoNotice /\ \E f \in SaveFailures :
              _handle_pro_validation_submission(FALSE, f.head_ok, f.dl_ok,
                                                f.up_ok, f.new_ok))
          => /\ notice'.msg = "error"
             /\ UNCHANGED <<bucket, cacheVars, pro_current_clip, pro_clip_params,
                            pro_validated_clips_session, pro_remaining_count,
                            submitted>>
       /\ (~ProPage /\ notice' # NoNotice /\
             \E validation_response, user_confidence \in BOOLEAN, f \in SaveFailures :
              /\ ~(validation_response /\ user_confidence)
              /\ _handle_validation_submission(validation_response, user_confidence,
                                               f.head_ok, f.dl_ok, f.up_ok, f.new_ok))
          => /\ notice'.msg = "error"
             /\ UNCHANGED <<bucket, cacheVars, current_clip, clip_params, clip_queue, q>>
      ]_vars

\* C18 witness: the error of an incomplete submission is on the page of a
\* session that has stored a validation before, with the clip still shown
C18_Witness ==
    /\ ProPage
    /\ notice.msg = "error"
    /\ ClipDisplayed
    /\ bucket[SessionKey(PRO_VALIDATIONS_PREFIX, OwnSession)].exists

\* C19: when save_pro_validation_response returned False for a submission,
\* no success message is shown and the clip is still the current clip
C19_ClipKeptWhenSaveFails ==
    (ProPage /\ notice.ret = "False") =>
        /\ notice.msg # "success"
        /\ pro_current_clip # None

\* C20: whatever the session did before (logins, logouts, loads,
\* submissions, Load Next Clip), a clip record that get_or_load_pro_clip
\* has returned for the selections of the logged-in user (the stored
\* parameters are those selections) has the userID of that user
C20_ReturnedClipBelongsToUser ==
    (/\ get_pro_user_selections # None
     /\ pro_clip_params = <<pro_user_id, language_code>>
     /\ IsClip(pro_current_clip))
        => /\ pro_current_clip.userID = pro_user_id
           /\ pro_current_clip.userID = get_pro_user_selections.user_id

\* C20 witness: the session stored a validation as one user and now shows a
\* clip of another, logged-in user
C20_Witness ==
    /\ ClipDisplayed
    /\ pro_current_clip.userID = pro_user_id
    /\ \E t \in submitted : t[1] # pro_user_id

----------------------------------------------------------------------------
(* Non-interference between users *)

\* what the functions return to user B on the stored files, every read and
\* query succeeding: the validated set of both variants, the ordered
\* selection and the remaining count
ResultsFor(B) ==
    LET validated == get_validated_pro_clips(B, TRUE, {})
        with_session == _get_validated_clips_with_session(validated)
    IN [validated |-> validated,
        pro_validated |-> pro_get_validated_pro_clips(B, TRUE, {}),
        clip |-> get_random_assigned_clip(B, with_session, TRUE),
        remaining |-> get_remaining_pro_clips_count(B, with_session, TRUE),
        pro_remaining |-> pro_get_remaining_pro_clips_count(B,
                              pro_get_validated_pro_clips(B, TRUE, {}))]

\* C21: a validation stored by user A leaves what get_validated_pro_clips,
\* get_random_assigned_clip and get_remaining_pro_clips_count return to every
\* other user B as it was before the record was stored
C21_StoredValidationsDoNotInterfere ==
    [][\A k \in ProKeys :
          (bucket'[k] # bucket[k] /\ bucket'[k].exists) =>
             LET A == bucket'[k].rows[Len(bucket'[k].rows)].userID
             IN \A B \in UserIds \ {A} : ResultsFor(B)' = ResultsFor(B)]_vars

----------------------------------------------------------------------------
(* SpecList: get_validated_clips over the files of three sessions *)

\* the Normal mode validation files of three sessions, one record each
ListBuckets ==
    {b \in [BucketKeys -> {Absent} \cup {File(<<r>>) : r \in NormalRows}] :
        /\ b[<<DATASET_KEY, "">>] = Absent
        /\ b[<<SHARED_KEY, "">>] = Absent
        /\ \A k \in ProKeys : b[k] = Absent}

\* a call of the body of get_validated_clips with every read succeeding
ReadAllFiles(scope) ==
    /\ q' = [op |-> "read_all", arg |-> scope,
             result |-> get_validated_clips(NormalPrefixKeys, scope, TRUE, {})]
    /\ UNCHANGED <<dataset, bucket, cacheVars, normalVars, sessionVars, rng, seen,
                   saveVars>>

InitL ==
    /\ InitNormal
    /\ dataset = {}
    /\ bucket \in ListBuckets
    /\ InitCaches
    /\ initialize_pro_session
    /\ InitQuery
    /\ InitSave

NextL == \E scope \in Scopes : ReadAllFiles(scope)

SpecList == InitL /\ [][NextL]_vars

\* C22: whatever the number of session files under the prefix,
\* get_validated_clips returns the (filename, start_time) of every record of
\* every one of those files whose country, device_id and species equal the
\* arguments
C22_EveryFileUnderThePrefixIsRead ==
    q.op = "read_all" =>
        q.result = UNION {NormalPairsOf(k, q.arg) : k \in NormalPrefixKeys}

----------------------------------------------------------------------------
(* SpecAudio: get_single_file_path over the audio objects of the bucket *)

\* country_prefix = f"proj_tabmon_NINA{suffix}/" of the four countries that
\* get_single_file_path gives a suffix
CountryPrefix ==
    ("France" :> "proj_tabmon_NINA_FR/") @@ ("Spain" :> "proj_tabmon_NINA_ES/")
        @@ ("Netherlands" :> "proj_tabmon_NINA_NL/") @@ ("Norway" :> "proj_tabmon_NINA/")

\* the country values get_single_file_path is called with
AudioCountries == {"Norway", "France", "Sweden"}

\* the device directories (bugg_RPiID-*) under each country prefix
DeviceDirs ==
    {[prefix |-> CountryPrefix["Norway"], device |-> "dev1"],
     [prefix |-> CountryPrefix["Norway"], device |-> "dev2"],
     [prefix |-> CountryPrefix["France"], device |-> "dev3"]}

\* the order of the device directories in a listing
DeviceRank == ("dev1" :> 1) @@ ("dev2" :> 2) @@ ("dev3" :> 3)

\* the keys f"{conf_path}{filename}" audio objects can have, one conf_
\* directory per device
AudioKeys ==
    {[prefix |-> d.prefix, device |-> d.device, filename |-> f] :
        d \in DeviceDirs, f \in Filenames}

\* get_single_file_path(filename, country, deployment_id) over the audio
\* objects stored; list_ok is whether the list_objects_v2 calls succeed, bad
\* the objects whose head_object fails
get_single_file_path(objects, filename, country, deployment_id, list_ok, bad) ==
    IF country \notin DOMAIN CountryPrefix
    THEN [kind |-> "raise", exc |-> "UnboundLocalError"]
    ELSE LET country_prefix == CountryPrefix[country]
             under == {k \in objects : k.prefix = country_prefix}
             found == {k \in under \ bad : k.filename = filename}
         IN IF ~list_ok THEN [kind |-> "none", msg |-> "error"]
            ELSE IF under = {} THEN [kind |-> "none", msg |-> "warning"]
            ELSE IF found = {} THEN [kind |-> "none", msg |-> "error"]
            ELSE [kind |-> "url",
                  key |-> CHOOSE k \in found :
                             \A j \in found : DeviceRank[k.device] <= DeviceRank[j.device]]

\* a call of get_single_file_path
GetSingleFilePath(filename, country, deployment_id, list_ok, bad) ==
    /\ q.op \in {"objects", "file_path"}
    /\ bad \subseteq q.objects
    /\ Cardinality(bad) <= 1
    /\ q' = [op |-> "file_path", objects |-> q.objects, filename |-> filename,
             country |-> country, deployment_id |-> deployment_id,
             result |-> get_single_file_path(q.objects, filename, country,
                                             deployment_id, list_ok, bad)]
    /\ UNCHANGED <<dataset, bucket, cacheVars, normalVars, sessionVars, rng, seen,
                   saveVars>>

InitA ==
    /\ InitNormal
    /\ dataset = {}
    /\ bucket = EmptyBucket
    /\ InitCaches
    /\ initialize_pro_session
    /\ rng = 0
    /\ seen = [cfg |-> None, results |-> {}, repeated |-> FALSE]
    /\ q \in {[op |-> "objects", objects |-> o] : o \in SUBSET AudioKeys}
    /\ InitSave

\* the device of a call is a device of the call's country (the sidebar
\* offers the devices of the selected country)
DevicesOf(country) ==
    IF country \in DOMAIN CountryPrefix
    THEN {d.device : d \in {x \in DeviceDirs : x.prefix = CountryPrefix[country]}}
    ELSE {"dev1"}

NextA ==
    \E filename \in Filenames, country \in AudioCountries :
        \E deployment_id \in DevicesOf(country), list_ok \in BOOLEAN :
          \E bad \in SUBSET AudioKeys :
              GetSingleFilePath(filename, country, deployment_id, list_ok, bad)

SpecAudio == InitA /\ [][NextA]_vars

\* C23: get_single_file_path never raises: for every filename and every
\* country value, one of the four countries or not, it returns the URL of an
\* object that exists or None with a warning or an error message shown
C23_FilePathNeverRaises ==
    q.op = "file_path" =>
        \/ q.result.kind = "url" /\ q.result.key \in q.objects
        \/ q.result.kind = "none" /\ q.result.msg \in {"warning", "error"}

\* C24: a URL returned by get_single_file_path names an object under the
\* country's prefix, with the requested filename, in the directory of the
\* device given as deployment_id
C24_FilePathOfRequestedDevice ==
    (q.op = "file_path" /\ q.result.kind = "url") =>
        /\ q.result.key.prefix = CountryPrefix[q.country]
        /\ q.result.key.filename = q.filename
        /\ q.result.key.device = q.deployment_id

====
